---- MODULE Spec2Model ----
(***************************************************************************)
(* A model of the ignis notification daemon                                *)
(* (src/ignis/services/notifications/service.py, NotificationService) and   *)
(* of the options service it reads its settings from                       *)
(* (src/ignis/services/options/service.py, OptionsService).                *)
(*                                                                         *)
(* The daemon runs on one event loop: every D-Bus method call, property    *)
(* setter and popup dismissal is one atomic step.  A Notification object   *)
(* is the record [oid, id, summary, popup]: oid is the identity of the     *)
(* Python object, id the notification id, summary stands for the content   *)
(* arguments of Notify.  The code uses an object's identity only to tell   *)
(* objects apart, and objects are admitted as popups in the order they are *)
(* constructed, so oid is kept as the object's rank, by construction time, *)
(* among the objects the service references (Renumber).                    *)
(* The dicts _notifications and _popups are insertion-ordered, keyed by    *)
(* the notification's id; they are modelled as sequences of Notification   *)
(* records with pairwise different ids.                                    *)
(*                                                                         *)
(* Notification (notification.py) is not part of the sources: close() and  *)
(* dismiss() are modelled as the synchronous emission of "closed" and      *)
(* "dismissed" to the handlers connected at that moment.                   *)
(* A client that was handed a Notification can keep it after the service   *)
(* has let go of it, and the handlers of the service stay connected to it. *)
(* held is what clients keep: every object the service has let go of.      *)
(* Such an object is the record [id, summary, popup, init]; close() and    *)
(* dismiss() on it depend on nothing else, so kept objects that agree on   *)
(* these are one element of held.  A new process has handed out nothing.   *)
(*                                                                         *)
(* Four specifications: Spec is the daemon constructed on a machine with   *)
(* no options file and no history file, then called, stopped and started   *)
(* again; SpecLoad is the daemon started, and started again, on any        *)
(* history file, valid or not; SpecOptions is the options service alone,   *)
(* called by any client; SpecRecorder is the screen recorder               *)
(* (src/ignis/services/recorder/service.py, RecorderService) with its      *)
(* calls, stream callbacks and bus messages in any order.                  *)
(* The daemon keeps its settings in the options service: dnd and           *)
(* max_popups_count are read from __data, and the setters of the daemon    *)
(* are set_option calls that rewrite the options file.  Python values of   *)
(* options are kept as the text Python writes them.  Whether the module    *)
(* sphinx is loaded, which __load_data tests, is an input of every         *)
(* construction of the options service.                                    *)
(*                                                                         *)
(* Left out: the icon and image-data hints, the timer of a popup (its      *)
(* expiry is a dismissal at any time), a max_popups_count that is          *)
(* negative or no number, a history file whose id is no number or whose    *)
(* notifications is no list, an options file that is no JSON object, and a *)
(* crash in the middle of a write of a file.                               *)
(***************************************************************************)
EXTENDS Integers, Sequences, FiniteSets, TLC

\* ------------------------------------------------------------------ bounds
\* The id counter is allowed to grow to MaxId.
MaxId == 2

\* The daemon is called at most MaxCalls times: its D-Bus methods, clear_all,
\* close() and dismiss() on a notification, and a restart. The setters are not
\* counted.
MaxCalls == 6

\* start_recording is called at most MaxStarts times.
MaxStarts == 3

\* -------------------------------------------------------- program constants
\* default of the max_popups_count option
DefaultMaxPopupsCount == 3
\* the reason code of every NotificationClosed signal
ClosedReason == 2

\* the content (app_name, summary, body, ...) a Notify call carries
Summaries == {"Hello"}

\* the ids a client passes as replaces_id or to CloseNotification: an id the
\* counter issues, and an id ahead of the counter
ClientIds == {1, 3}

\* the values the max_popups_count setter is given: none, one, the default
PopupsSettings == {0, 1, DefaultMaxPopupsCount}

VARIABLES
    _id,               \* self._id: the id counter
    _notifications,    \* self._notifications: dict id -> Notification
    _popups,           \* self._popups: dict id -> Notification
    cache_file,        \* the content of NOTIFICATIONS_CACHE_FILE
    events,            \* what the last operation of the daemon emitted and
                       \* wrote, in order
    lastOp,            \* the last operation of the daemon (a method call, a
                       \* dismissal, a start), its argument and its result
    held,              \* the Notification objects clients have kept that
                       \* the service references no longer
    calls,             \* the number of calls of the daemon so far
    __data,            \* OptionsService.__data: dict name -> Option
    options_file,      \* the content of OPTIONS_FILE
    optionsOp,         \* the last call of the options service, its
                       \* arguments, what it raised and what it returned
    _active,           \* RecorderService._active
    _is_paused,        \* RecorderService._is_paused
    __pipeline,        \* RecorderService.__pipeline
    sessions,          \* the sessions the SessionManager has been asked for
                       \* whose stream callback has not fired yet
    starts,            \* the number of start_recording calls so far
    emitted,           \* the recording_started and recording_stopped signals
                       \* emitted so far, in order
    buses,             \* the number of buses __on_gst_message is connected to
    recorderOp         \* the last call or callback of the recorder

optvars == <<__data, options_file, optionsOp>>

recvars == <<_active, _is_paused, __pipeline, sessions, starts, emitted, buses,
            recorderOp>>

daemonvars ==
    <<_id, _notifications, _popups, cache_file, events, lastOp, held, calls>>

vars == <<daemonvars, optvars, recvars>>

Min(S) == CHOOSE x \in S : \A y \in S : x <= y

Max(S) == CHOOSE x \in S : \A y \in S : x >= y

\* ------------------------------------------------------- insertion-ordered dict
DictKeys(d) == {d[i].id : i \in 1..Len(d)}

DictHas(d, k) == k \in DictKeys(d)

DictGet(d, k) == d[CHOOSE i \in 1..Len(d) : d[i].id = k]

\* d[n.id] = n: an existing key keeps its position, a new key goes last
DictSet(d, n) ==
    IF DictHas(d, n.id)
    THEN [i \in 1..Len(d) |-> IF d[i].id = n.id THEN n ELSE d[i]]
    ELSE Append(d, n)

\* what d.pop(k) gives for a key that is not in d: the exception it raises
KeyError == "KeyError"

\* d.pop(k), with no default
DictPop(d, k) == IF DictHas(d, k) THEN SelectSeq(d, LAMBDA x : x.id # k) ELSE KeyError

\* ------------------------------------------------------------ Notification
Notification(oid, id, summary, popup) ==
    [oid |-> oid, id |-> id, summary |-> summary, popup |-> popup]

\* Notification.json: the fields that are persisted
json(n) == [id |-> n.id, summary |-> n.summary]

\* the objects the service references
Referenced(s) ==
    {s.notifications[i].oid : i \in 1..Len(s.notifications)}
        \cup {s.popups[i].oid : i \in 1..Len(s.popups)}

\* a newly constructed object is younger than every referenced one, and than
\* every one that was referenced when the handler began (s.top)
NewOid(s) == 1 + Max(Referenced(s) \cup {s.top})

\* oid as the rank among the referenced objects
Renumber(s, d) ==
    [i \in 1..Len(d) |->
        [d[i] EXCEPT !.oid = Cardinality({o \in Referenced(s) : o <= d[i].oid})]]

\* ------------------------------------------------------------ service state
\* The handlers below are functions of the service state s, a record of the
\* variables a handler may change.
State ==
    [id |-> _id, notifications |-> _notifications, popups |-> _popups,
     file |-> cache_file, events |-> <<>>, closures |-> {},
     top |-> Max(Referenced([notifications |-> _notifications, popups |-> _popups])
                     \cup {0})]

Emit(s, name, id, x) == [s EXCEPT !.events = Append(@, <<name, id, x>>)]

\* NOTIFICATIONS_EMPTY_CACHE_FILE
EmptyCacheFile == [id |-> 0, notifications |-> <<>>]

get_notification_has(s, id) == DictHas(s.notifications, id)

get_notification(s, id) == DictGet(s.notifications, id)

\* mutant of sync: the counter is not written
sync_without_counter(s) ==
    Emit([s EXCEPT !.file =
              [id |-> 0,
               notifications |->
                   [i \in 1..Len(s.notifications) |-> json(s.notifications[i])]]],
         "write", 0, Len(s.notifications))

\* __sync: the whole store and the counter are written
sync(s) ==
    Emit([s EXCEPT !.file =
              [id |-> s.id,
               notifications |->
                   [i \in 1..Len(s.notifications) |-> json(s.notifications[i])]]],
         "write", s.id, Len(s.notifications))

\* __dismiss_popup
dismiss_popup(s, n) ==
    IF DictHas(s.popups, n.id)
    THEN Emit([s EXCEPT !.popups = DictPop(@, n.id)], "notify::popups", n.id, 0)
    ELSE s

\* Notification.dismiss(): emits "dismissed", which runs __dismiss_popup
NotificationDismiss(s, n) == dismiss_popup(s, n)

\* mutant of __close_notification: the popup is not dismissed
close_notification_keeps_popup(s, n) ==
    IF ~DictHas(s.notifications, n.id) THEN Emit(s, KeyError, n.id, 0)
    ELSE
    LET s1 == [s EXCEPT !.notifications = DictPop(@, n.id)]
        s3 == sync(s1)
        s4 == Emit(s3, "NotificationClosed", n.id, ClosedReason)
    IN  Emit(s4, "notify::notifications", n.id, 0)

\* mutant of __close_notification: the reason depends on what is closed
close_notification_reason_varies(s, n) ==
    IF ~DictHas(s.notifications, n.id) THEN Emit(s, KeyError, n.id, 0)
    ELSE
    LET s1 == [s EXCEPT !.notifications = DictPop(@, n.id)]
        s2 == IF n.popup THEN NotificationDismiss(s1, n) ELSE s1
        s3 == sync(s2)
        s4 == Emit(s3, "NotificationClosed", n.id,
                   IF n.popup THEN ClosedReason ELSE ClosedReason + 1)
    IN  Emit(s4, "notify::notifications", n.id, 0)

\* __close_notification: the pop of line 268 raises KeyError when the store has
\* no notification under the id, and the handler ends there
close_notification(s, n) ==
    IF ~DictHas(s.notifications, n.id) THEN Emit(s, KeyError, n.id, 0)
    ELSE
    LET s1 == [s EXCEPT !.notifications = DictPop(@, n.id)]
        s2 == IF n.popup THEN NotificationDismiss(s1, n) ELSE s1
        s3 == sync(s2)
        s4 == Emit(s3, "NotificationClosed", n.id, ClosedReason)
    IN  Emit(s4, "notify::notifications", n.id, 0)

\* Notification.close(): emits "closed" synchronously, which runs the handlers
\* connected at that moment: __close_notification
NotificationClose(s, n) == close_notification(s, n)

\* __add_notification
add_notification(s, n) == [s EXCEPT !.notifications = DictSet(@, n)]

\* the eviction of __init_notification
evict(s, maxv) ==
    IF Len(s.popups) >= maxv
    THEN IF ~(maxv = 0)
         THEN NotificationDismiss(s, s.popups[Len(s.popups)])
         ELSE s
    ELSE s

\* the admission of __init_notification
admit(s, n) ==
    IF n.popup
    THEN Emit(Emit([s EXCEPT !.popups = DictSet(@, n)], "new_popup", n.id, 0),
              "notify::popups", n.id, 0)
    ELSE s

\* mutant of __init_notification: the popup flag is dnd itself
init_notification_popup_is_dnd(s, id, summary, dndv, maxv) ==
    LET n  == Notification(NewOid(s), id, summary, dndv)
        s2 == evict(s, maxv)
        s3 == admit(s2, n)
        s4 == add_notification(s3, n)
        s5 == sync(s4)
        s6 == Emit(s5, "notified", n.id, 0)
    IN  Emit(s6, "notify::notifications", n.id, 0)

\* __init_notification
init_notification(s, id, summary, dndv, maxv) ==
    LET n  == Notification(NewOid(s), id, summary, ~dndv)
        s2 == evict(s, maxv)
        s3 == admit(s2, n)
        s4 == add_notification(s3, n)
        s5 == sync(s4)
        s6 == Emit(s5, "notified", n.id, 0)
    IN  Emit(s6, "notify::notifications", n.id, 0)

\* old_notification.connect("closed", lambda x: _init(_id)): the closure is
\* connected to the old object, which the service no longer references
connect_init(s, old, id, summary) ==
    Emit([s EXCEPT !.closures = @ \cup {[oid |-> old.oid, id |-> id, summary |-> summary]}],
         "connect closed", id, 0)

\* mutant of __Notify: a replaces_id that is not live advances the counter
NotifyState_counts_replace(s, replaces_id, summary, dndv, maxv) ==
    IF replaces_id = 0
    THEN LET s1 == [s EXCEPT !.id = @ + 1]
         IN  init_notification(s1, s1.id, summary, dndv, maxv)
    ELSE IF get_notification_has(s, replaces_id)
         THEN LET old == get_notification(s, replaces_id)
              IN  connect_init(NotificationClose(s, old), old, replaces_id, summary)
         ELSE init_notification([s EXCEPT !.id = @ + 1], replaces_id, summary, dndv, maxv)

\* __Notify, the state it leaves
NotifyState(s, replaces_id, summary, dndv, maxv) ==
    IF replaces_id = 0
    THEN LET s1 == [s EXCEPT !.id = @ + 1]
         IN  init_notification(s1, s1.id, summary, dndv, maxv)
    ELSE IF get_notification_has(s, replaces_id)
         THEN LET old == get_notification(s, replaces_id)
              IN  connect_init(NotificationClose(s, old), old, replaces_id, summary)
         ELSE init_notification(s, replaces_id, summary, dndv, maxv)

\* __Notify, the id it returns
NotifyReturn(s, replaces_id) == IF replaces_id = 0 THEN s.id + 1 ELSE replaces_id

\* mutant of __CloseNotification: the signal is emitted for a miss too
CloseNotificationState_signals_miss(s, id) ==
    IF get_notification_has(s, id)
    THEN NotificationClose(s, get_notification(s, id))
    ELSE Emit(s, "NotificationClosed", id, ClosedReason)

\* __CloseNotification
CloseNotificationState(s, id) ==
    IF get_notification_has(s, id)
    THEN NotificationClose(s, get_notification(s, id))
    ELSE s

\* clear_all: closes the notifications of a copy of the list, in order
RECURSIVE close_each(_, _)
close_each(s, ns) ==
    IF ns = <<>> THEN s ELSE close_each(NotificationClose(s, Head(ns)), Tail(ns))

clear_all_state(s) == close_each(s, s.notifications)

\* no file at NOTIFICATIONS_CACHE_FILE: open() raises FileNotFoundError
NoFile == [missing |-> TRUE]

\* a history file json.load raises on, or whose top level has no get()
Unparsable == [garbage |-> TRUE]

\* a list entry Notification(**n, ...) raises on: not an object, a key the
\* constructor requires missing, or a key it does not take
BadRecord == [bad |-> TRUE]

\* open() and json.load() give an object
parses(file) == file # NoFile /\ file # Unparsable

\* log_file.get(key, default)
log_file_get(file, key, default) ==
    IF key \in DOMAIN file THEN file[key] ELSE default

ValidRecord(r) == DOMAIN r = {"id", "summary"}

\* the except branch of __load_notifications: the file becomes the skeleton,
\* what the loop has put in memory before the exception stays there
clean_file(s) ==
    Emit([s EXCEPT !.file = EmptyCacheFile], "write", 0, 0)

\* the loop of __load_notifications: the records become Notification objects
\* with popup False, up to the first record the constructor raises on
RECURSIVE load_each(_, _)
load_each(s, recs) ==
    IF recs = <<>> \/ ~ValidRecord(Head(recs)) THEN s
    ELSE LET r == Head(recs)
             n == Notification(NewOid(s), r.id, r.summary, FALSE)
         IN  load_each(add_notification(s, n), Tail(recs))

\* __load_notifications: the list and the counter are read with get(), a key
\* the file does not have gives the default and any other key is not read;
\* the counter is restored after the loop, any exception ends in the except
\* branch
load_notifications(s) ==
    IF ~parses(s.file) THEN clean_file(s)
    ELSE LET recs == log_file_get(s.file, "notifications", <<>>)
         IN  IF \A i \in 1..Len(recs) : ValidRecord(recs[i])
             THEN [load_each(s, recs) EXCEPT !.id = log_file_get(s.file, "id", 0)]
             ELSE clean_file(load_each(s, recs))

\* NotificationService.__init__ in a new process, the history file kept
init_service(file) ==
    load_notifications([id |-> 0, notifications |-> <<>>, popups |-> <<>>,
                        file |-> file, events |-> <<>>, closures |-> {}, top |-> 0])

\* ---------------------------------------------------------- options service
\* the names and the values the callers of the options service use
OptionNames == {"dnd", "some_option"}

\* Python values, written as Python writes them: two numbers and a tuple; a
\* list is what a restart can bring back
OptionValues == {"0", "1", "(1, 2)"}

\* what a method without a return statement returns
None == "None"

\* json.dump of a value: the JSON text; a tuple is written as an array
json_dump(value) == IF value = "(1, 2)" THEN "[1, 2]" ELSE value

\* json.load of a JSON text: an array becomes a list, which Python writes as
\* the array is written
json_load(text) == text

\* Option(name=..., value=...): an object with a name and a value
Option(name, value) == [name |-> name, value |-> value]

\* the service between two calls; raised is the exception the last call has
\* raised ("" for none), ret the value get_option has returned
OptionsState == [data |-> __data, file |-> options_file, raised |-> "", ret |-> None]

Raise(o, exception) == [o EXCEPT !.raised = exception]

\* option = self.__data.get(name, None), if option: an Option object is true
data_has(o, name) == name \in DOMAIN o.data

\* __sync of the options service
options_sync(o) ==
    [o EXCEPT !.file = [key \in DOMAIN o.data |-> json_dump(o.data[key].value)]]

\* no file at OPTIONS_FILE: open() raises FileNotFoundError
NoOptionsFile == [missing |-> "True"]

\* __load_data: in a process that has loaded the module sphinx (a build of
\* the documentation) it returns at once; otherwise, on the file a service
\* has written, every key becomes an Option, and with no file, the file is
\* written as {}
load_data(o, sphinx) ==
    IF sphinx THEN o
    ELSE IF o.file = NoOptionsFile THEN [o EXCEPT !.file = <<>>]
    ELSE [o EXCEPT !.data = [i \in DOMAIN o.file |-> Option(i, json_load(o.file[i]))]]

\* mutant of create_option: an existing option is given the default again
create_option_resets(o, name, default, exists_ok) ==
    IF ~data_has(o, name) \/ exists_ok
    THEN options_sync([o EXCEPT !.data = (name :> Option(name, default)) @@ @])
    ELSE Raise(o, "OptionExistsError")

create_option(o, name, default, exists_ok) ==
    IF ~data_has(o, name)
    THEN options_sync([o EXCEPT !.data = (name :> Option(name, default)) @@ @])
    ELSE IF ~exists_ok THEN Raise(o, "OptionExistsError") ELSE o

\* remove_option: self._data is not the dict self.__data (the name of that
\* attribute is mangled), and the service has no attribute _data
remove_option(o, name) ==
    IF data_has(o, name)
    THEN Raise(o, "AttributeError")
    ELSE Raise(o, "OptionNotFoundError")

get_option(o, name) ==
    IF data_has(o, name)
    THEN [o EXCEPT !.ret = o.data[name].value]
    ELSE Raise(o, "OptionNotFoundError")

\* mutant of set_option: an option that does not exist is created
set_option_creates(o, name, value) ==
    options_sync([o EXCEPT !.data = (name :> Option(name, value)) @@ @])

set_option(o, name, value) ==
    IF data_has(o, name)
    THEN options_sync([o EXCEPT !.data = (name :> Option(name, value)) @@ @])
    ELSE Raise(o, "OptionNotFoundError")

\* OptionsService.__init__ in a new process, the options file kept
options_init_service(file, sphinx) ==
    load_data([data |-> <<>>, file |-> file, raised |-> "", ret |-> None], sphinx)

\* --------------------------------------- the options of the two services
DND_OPTION == "dnd"

POPUP_TIMEOUT_OPTION == "popup_timeout"

MAX_POPUPS_COUNT_OPTION == "max_popups_count"

RECORDING_BITRATE_OPTION == "recording_bitrate"

RECORDING_DEFAULT_FILE_LOCATION_OPTION == "recording_default_file_location"

RECORDING_DEFAULT_FILENAME_OPTION == "recording_default_filename"

\* a bool and an int as Python writes them
PyBool(b) == IF b THEN "True" ELSE "False"

PyInt(n) == ToString(n)

\* the default of the popup_timeout option
DefaultPopupTimeout == "5000"

\* the values the popup_timeout setter is given: the option is read when a
\* notification is constructed, for the timer of the popup, and the expiry of
\* that timer is a dismissal at any time
PopupTimeouts == {DefaultPopupTimeout}

\* not value, for a value Python has written
Not(value) == value \in {"False", "0", "None", "[]", "()"}

\* the number a value stands for, in len(self._popups) > value
IntOf(value) == CHOOSE n \in PopupsSettings : PyInt(n) = value

\* NotificationService.__init__: the three options are created unless the
\* options file has them
notification_options(o) ==
    LET o1 == create_option(o, DND_OPTION, PyBool(FALSE), TRUE)
        o2 == create_option(o1, POPUP_TIMEOUT_OPTION, DefaultPopupTimeout, TRUE)
    IN  create_option(o2, MAX_POPUPS_COUNT_OPTION, PyInt(DefaultMaxPopupsCount), TRUE)

\* the defaults of the three recording options, and the values their
\* setters are given
DefaultBitrate == "8000"

Bitrates == {DefaultBitrate, "4000"}

\* GLib.get_user_special_dir(GLib.UserDirectory.DIRECTORY_VIDEOS)
DefaultFileLocation == "'Videos'"

FileLocations == {DefaultFileLocation, "'/tmp'"}

DefaultFilename == "'%Y-%m-%d_%H-%M-%S.mp4'"

Filenames == {DefaultFilename, "'x.mp4'"}

\* RecorderService.__init__: the three options are created unless the options
\* file has them
recorder_options(o) ==
    LET o1 == create_option(o, RECORDING_BITRATE_OPTION, DefaultBitrate, TRUE)
        o2 == create_option(o1, RECORDING_DEFAULT_FILE_LOCATION_OPTION,
                            DefaultFileLocation, TRUE)
    IN  create_option(o2, RECORDING_DEFAULT_FILENAME_OPTION, DefaultFilename, TRUE)

\* the property dnd of the daemon, as not self.dnd reads it
dnd == ~Not(get_option(OptionsState, DND_OPTION).ret)

\* the property max_popups_count of the daemon
max_popups_count == IntOf(get_option(OptionsState, MAX_POPUPS_COUNT_OPTION).ret)

\* --------------------------------------------------------- recorder service
\* self.__pipeline: None, or the element Gst.parse_launch has returned, whose
\* get_bus() gives a bus or nothing
NoElement == [element |-> FALSE, bus |-> FALSE]

GstElement(bus) == [element |-> TRUE, bus |-> bus]

\* the types of the messages a bus delivers
MessageTypes == {"EOS", "ERROR", "STATE_CHANGED"}

\* the recorder between two calls
RecorderState ==
    [active |-> _active, is_paused |-> _is_paused, pipeline |-> __pipeline,
     emitted |-> emitted, buses |-> buses]

RecorderEmit(r, signal) == [r EXCEPT !.emitted = Append(@, signal)]

stop_recording(r) ==
    IF r.pipeline.element
    THEN RecorderEmit([r EXCEPT !.pipeline = NoElement, !.active = FALSE,
                                !.is_paused = FALSE],
                      "recording_stopped")
    ELSE r

pause_recording(r) ==
    IF r.pipeline.element THEN [r EXCEPT !.is_paused = TRUE] ELSE r

continue_recording(r) ==
    IF r.pipeline.element THEN [r EXCEPT !.is_paused = FALSE] ELSE r

\* __play_pipewire_stream: the stream callback of a session; the message
\* handler is connected to the bus of the new pipeline and stays connected
play_pipewire_stream(r, bus) ==
    LET r1 == [r EXCEPT !.pipeline = GstElement(bus)]
    IN  IF ~bus THEN r1
        ELSE RecorderEmit([r1 EXCEPT !.buses = @ + 1, !.active = TRUE,
                                     !.is_paused = FALSE],
                          "recording_started")

on_gst_message(r, type) ==
    IF type = "EOS" \/ type = "ERROR" THEN stop_recording(r) ELSE r

\* ------------------------------------------------------------------ actions
Install(s, op) ==
    /\ _id' = s.id
    /\ _notifications' = Renumber(s, s.notifications)
    /\ _popups' = Renumber(s, s.popups)
    /\ cache_file' = s.file
    /\ events' = s.events
    /\ lastOp' = op

Op(name, arg, ret) == [op |-> name, arg |-> arg, ret |-> ret]

\* the notifications the service hands out: the properties notifications and
\* popups
Handed == {_notifications[i] : i \in 1..Len(_notifications)}
              \cup {_popups[i] : i \in 1..Len(_popups)}

\* the objects a handler has let go of: handed out before, referenced no longer
Gone(s) == {n \in Handed : n.oid \notin Referenced(s)}

\* an object the service has let go of, in the hands of a client: its id, its
\* content, its popup flag and the closures of line 195 connected to its
\* closed signal (the content of the call that replaced it)
HeldObject(s, n) ==
    [id |-> n.id, summary |-> n.summary, popup |-> n.popup,
     init |-> IF \E c \in s.closures : c.oid = n.oid
              THEN <<(CHOOSE c \in s.closures : c.oid = n.oid).summary>>
              ELSE <<>>]

\* clients keep every object they were handed: the ones kept before, and the
\* ones the handler has let go of
Kept(s) == held \cup {HeldObject(s, n) : n \in Gone(s)}

\* the state a handler of the running daemon leaves
InstallKept(s, op) ==
    /\ calls < MaxCalls
    /\ calls' = calls + 1
    /\ Install(s, op)
    /\ held' = Kept(s)

\* no daemon has been constructed
NoDaemon ==
    /\ _id = 0
    /\ _notifications = <<>>
    /\ _popups = <<>>
    /\ events = <<>>
    /\ lastOp = Op("stopped", 0, 0)
    /\ held = {}
    /\ calls = 0

\* RecorderService.__init__: the fields of the recorder
RecorderInit ==
    /\ _active = FALSE
    /\ _is_paused = FALSE
    /\ __pipeline = NoElement
    /\ sessions = 0
    /\ starts = 0
    /\ emitted = <<>>
    /\ buses = 0
    /\ recorderOp = "init"

OptionsOp(name, option, value, exists_ok, o) ==
    [op |-> name, name |-> option, value |-> value, exists_ok |-> exists_ok,
     raised |-> o.raised, ret |-> o.ret]

\* no client has called the options service
NoOptionsOp ==
    [op |-> "init", name |-> "", value |-> None, exists_ok |-> FALSE,
     raised |-> "", ret |-> None]

\* the options service is not constructed, and there is no options file
NoOptions ==
    /\ __data = <<>>
    /\ options_file = NoOptionsFile
    /\ optionsOp = NoOptionsOp

\* NotificationService() on a machine with no options file and no history
\* file: the options service is constructed and the three options of the
\* daemon are created, then the history is loaded
Init ==
    \E sphinx \in BOOLEAN :
    /\ _id = init_service(NoFile).id
    /\ _notifications = init_service(NoFile).notifications
    /\ _popups = init_service(NoFile).popups
    /\ cache_file = init_service(NoFile).file
    /\ events = init_service(NoFile).events
    /\ lastOp = Op("init", 0, 0)
    /\ held = {}
    /\ calls = 0
    /\ __data = notification_options(options_init_service(NoOptionsFile, sphinx)).data
    /\ options_file =
           notification_options(options_init_service(NoOptionsFile, sphinx)).file
    /\ optionsOp = NoOptionsOp
    /\ RecorderInit

Notify(replaces_id, summary) ==
    /\ replaces_id = 0 => _id < MaxId
    /\ InstallKept(NotifyState(State, replaces_id, summary, dnd, max_popups_count),
                   Op("Notify", replaces_id, NotifyReturn(State, replaces_id)))
    /\ UNCHANGED <<optvars, recvars>>

CloseNotification(id) ==
    /\ InstallKept(CloseNotificationState(State, id), Op("CloseNotification", id, 0))
    /\ UNCHANGED <<optvars, recvars>>

clear_all ==
    /\ InstallKept(clear_all_state(State), Op("clear_all", 0, 0))
    /\ UNCHANGED <<optvars, recvars>>

\* notification.close() on a notification the service hands out in
\* notifications or popups
Close(n) ==
    /\ InstallKept(NotificationClose(State, n), Op("close", n.id, n.oid))
    /\ UNCHANGED <<optvars, recvars>>

\* close() on an object a client has kept: the handlers connected to its
\* closed signal run in the order they were connected, __close_notification
\* first (what it raises is logged), then the closure of a replacing Notify,
\* which constructs the notification of that call
close_held(s, h, dndv, maxv) ==
    LET s1 == NotificationClose(s, h)
    IN  IF h.init = <<>> THEN s1
        ELSE init_notification(s1, h.id, h.init[1], dndv, maxv)

CloseHeld(h) ==
    /\ InstallKept(close_held(State, h, dnd, max_popups_count), Op("close", h.id, 0))
    /\ UNCHANGED <<optvars, recvars>>

\* notification.dismiss() on a notification the service hands out in
\* notifications or popups: by the user or by the popup timeout
Dismiss(n) ==
    /\ InstallKept(NotificationDismiss(State, n), Op("dismiss", n.id, n.oid))
    /\ UNCHANGED <<optvars, recvars>>

\* dismiss() on an object a client has kept
DismissHeld(h) ==
    /\ InstallKept(NotificationDismiss(State, h), Op("dismiss", h.id, 0))
    /\ UNCHANGED <<optvars, recvars>>

\* a setter of the daemon: set_option of the options service
InstallOption(o) ==
    /\ __data' = o.data
    /\ options_file' = o.file

SetDnd(v) ==
    /\ InstallOption(set_option(OptionsState, DND_OPTION, PyBool(v)))
    /\ UNCHANGED <<daemonvars, optionsOp, recvars>>

SetPopupTimeout(v) ==
    /\ InstallOption(set_option(OptionsState, POPUP_TIMEOUT_OPTION, v))
    /\ UNCHANGED <<daemonvars, optionsOp, recvars>>

SetMaxPopupsCount(v) ==
    /\ InstallOption(set_option(OptionsState, MAX_POPUPS_COUNT_OPTION, PyInt(v)))
    /\ UNCHANGED <<daemonvars, optionsOp, recvars>>

\* the process of the daemon is stopped between two operations and started
\* again: the options service and the daemon are constructed on the files
Restart(sphinx) ==
    /\ calls < MaxCalls
    /\ calls' = calls + 1
    /\ Install(init_service(cache_file), Op("restart", 0, 0))
    /\ held' = {}
    /\ __data' = notification_options(options_init_service(options_file, sphinx)).data
    /\ options_file' =
           notification_options(options_init_service(options_file, sphinx)).file
    /\ UNCHANGED <<optionsOp, recvars>>

Next ==
    \/ \E r \in {0} \cup ClientIds, s \in Summaries : Notify(r, s)
    \/ \E i \in ClientIds : CloseNotification(i)
    \/ clear_all
    \/ \E n \in Handed : Close(n)
    \/ \E n \in Handed : Dismiss(n)
    \/ \E h \in held : CloseHeld(h)
    \/ \E h \in held : DismissHeld(h)
    \/ \E v \in BOOLEAN : SetDnd(v)
    \/ \E v \in PopupTimeouts : SetPopupTimeout(v)
    \/ \E v \in PopupsSettings : SetMaxPopupsCount(v)
    \/ \E sphinx \in BOOLEAN : Restart(sphinx)

Spec == Init /\ [][Next]_vars

\* ------------------------------------------------- the options service alone
InstallOptions(o, name, option, value, exists_ok) ==
    /\ __data' = o.data
    /\ options_file' = o.file
    /\ optionsOp' = OptionsOp(name, option, value, exists_ok, o)

\* OptionsService() on a machine with no options file, and no other service
InitOptions ==
    \E sphinx \in BOOLEAN :
    /\ NoDaemon
    /\ cache_file = NoFile
    /\ __data = options_init_service(NoOptionsFile, sphinx).data
    /\ options_file = options_init_service(NoOptionsFile, sphinx).file
    /\ optionsOp = NoOptionsOp
    /\ RecorderInit

CreateOption(name, default, exists_ok) ==
    /\ InstallOptions(create_option(OptionsState, name, default, exists_ok),
                      "create_option", name, default, exists_ok)
    /\ UNCHANGED <<daemonvars, recvars>>

RemoveOption(name) ==
    /\ InstallOptions(remove_option(OptionsState, name), "remove_option", name, None, FALSE)
    /\ UNCHANGED <<daemonvars, recvars>>

GetOption(name) ==
    /\ InstallOptions(get_option(OptionsState, name), "get_option", name, None, FALSE)
    /\ UNCHANGED <<daemonvars, recvars>>

SetOption(name, value) ==
    /\ InstallOptions(set_option(OptionsState, name, value), "set_option", name, value, FALSE)
    /\ UNCHANGED <<daemonvars, recvars>>

\* the process is stopped between two calls and started again
OptionsRestart(sphinx) ==
    /\ InstallOptions(options_init_service(options_file, sphinx), "restart", "", None,
                      FALSE)
    /\ UNCHANGED <<daemonvars, recvars>>

NextOptions ==
    \/ \E n \in OptionNames, v \in OptionValues, e \in BOOLEAN : CreateOption(n, v, e)
    \/ \E n \in OptionNames : RemoveOption(n)
    \/ \E n \in OptionNames : GetOption(n)
    \/ \E n \in OptionNames, v \in OptionValues : SetOption(n, v)
    \/ \E sphinx \in BOOLEAN : OptionsRestart(sphinx)

SpecOptions == InitOptions /\ [][NextOptions]_vars

\* --------------------------------------------------------- the recorder alone
InstallRecorder(r, op) ==
    /\ _active' = r.active
    /\ _is_paused' = r.is_paused
    /\ __pipeline' = r.pipeline
    /\ emitted' = r.emitted
    /\ buses' = r.buses
    /\ recorderOp' = op

\* RecorderService() on a machine with no options file, and no daemon: the
\* options service is constructed and the three options of the recorder are
\* created
InitRecorder ==
    \E sphinx \in BOOLEAN :
    /\ NoDaemon
    /\ cache_file = NoFile
    /\ __data = recorder_options(options_init_service(NoOptionsFile, sphinx)).data
    /\ options_file = recorder_options(options_init_service(NoOptionsFile, sphinx)).file
    /\ optionsOp = NoOptionsOp
    /\ RecorderInit

\* start_recording: the SessionManager is asked for a session; the stream
\* callback fires later
StartRecording ==
    /\ starts < MaxStarts
    /\ starts' = starts + 1
    /\ sessions' = sessions + 1
    /\ recorderOp' = "start_recording"
    /\ UNCHANGED <<_active, _is_paused, __pipeline, emitted, buses, daemonvars, optvars>>

\* the stream callback of a session fires
PlayPipewireStream(bus) ==
    /\ sessions > 0
    /\ sessions' = sessions - 1
    /\ InstallRecorder(play_pipewire_stream(RecorderState, bus), "play_pipewire_stream")
    /\ UNCHANGED <<starts, daemonvars, optvars>>

StopRecording ==
    /\ InstallRecorder(stop_recording(RecorderState), "stop_recording")
    /\ UNCHANGED <<sessions, starts, daemonvars, optvars>>

PauseRecording ==
    /\ InstallRecorder(pause_recording(RecorderState), "pause_recording")
    /\ UNCHANGED <<sessions, starts, daemonvars, optvars>>

ContinueRecording ==
    /\ InstallRecorder(continue_recording(RecorderState), "continue_recording")
    /\ UNCHANGED <<sessions, starts, daemonvars, optvars>>

\* the setters bitrate, default_file_location and default_filename of the
\* recorder: set_option of the options service
SetBitrate(v) ==
    /\ InstallOption(set_option(OptionsState, RECORDING_BITRATE_OPTION, v))
    /\ recorderOp' = "set bitrate"
    /\ UNCHANGED <<_active, _is_paused, __pipeline, sessions, starts, emitted, buses,
                   daemonvars, optionsOp>>

SetDefaultFileLocation(v) ==
    /\ InstallOption(set_option(OptionsState, RECORDING_DEFAULT_FILE_LOCATION_OPTION, v))
    /\ recorderOp' = "set default_file_location"
    /\ UNCHANGED <<_active, _is_paused, __pipeline, sessions, starts, emitted, buses,
                   daemonvars, optionsOp>>

SetDefaultFilename(v) ==
    /\ InstallOption(set_option(OptionsState, RECORDING_DEFAULT_FILENAME_OPTION, v))
    /\ recorderOp' = "set default_filename"
    /\ UNCHANGED <<_active, _is_paused, __pipeline, sessions, starts, emitted, buses,
                   daemonvars, optionsOp>>

\* a bus the handler is connected to delivers a message: the bus of the
\* pipeline, or the bus of a pipeline the recorder has let go of
OnGstMessage(type) ==
    /\ buses > 0
    /\ InstallRecorder(on_gst_message(RecorderState, type), "on_gst_message")
    /\ UNCHANGED <<sessions, starts, daemonvars, optvars>>

NextRecorder ==
    \/ StartRecording
    \/ \E bus \in BOOLEAN : PlayPipewireStream(bus)
    \/ StopRecording
    \/ PauseRecording
    \/ ContinueRecording
    \/ \E type \in MessageTypes : OnGstMessage(type)
    \/ \E v \in Bitrates : SetBitrate(v)
    \/ \E v \in FileLocations : SetDefaultFileLocation(v)
    \/ \E v \in Filenames : SetDefaultFilename(v)

SpecRecorder == InitRecorder /\ [][NextRecorder]_vars

\* --------------------------------------------- a daemon started on any file
MaxFileLen == 3

Records == {json(Notification(0, i, s, FALSE)) : i \in ClientIds, s \in Summaries}
               \cup {BadRecord}

RecordLists == UNION {[1..k -> Records] : k \in 0..MaxFileLen}

\* what the daemon can find at NOTIFICATIONS_CACHE_FILE when it starts: no
\* file, a file that is not a JSON object, an object with both keys, with one
\* of them, and with neither
Files == {NoFile, Unparsable, <<>>, [version |-> 1]}
             \cup {[id |-> c, notifications |-> rs] : c \in 0..MaxId, rs \in RecordLists}
             \cup {[notifications |-> rs] : rs \in RecordLists}
             \cup {[id |-> c] : c \in 0..MaxId}

\* no daemon is running and there is no options file; the history file is any
\* file
InitLoad ==
    /\ NoDaemon
    /\ cache_file \in Files
    /\ NoOptions
    /\ RecorderInit

\* the daemon is started, and then stopped and started again
NextLoad == \E sphinx \in BOOLEAN : Restart(sphinx)

SpecLoad == InitLoad /\ [][NextLoad]_vars

\* ------------------------------------------------------------------ claims
\* a Notification without its object identity
Content(n) == [id |-> n.id, summary |-> n.summary, popup |-> n.popup]

Strip(d) == [i \in 1..Len(d) |-> Content(d[i])]

Ids(d) == [i \in 1..Len(d) |-> d[i].id]

JsonOf(d) == [i \in 1..Len(d) |-> json(d[i])]

Positions(name, id) == {i \in 1..Len(events) : events[i][1] = name /\ events[i][2] = id}

PositionsAfter(name, id) ==
    {i \in 1..Len(events') : events'[i][1] = name /\ events'[i][2] = id}

\* a step of the daemon: the option setters leave all of these alone
DaemonStep == ~UNCHANGED <<_id, _notifications, _popups, cache_file, events, lastOp>>

\* a step of __Notify: it always changes the counter or the store
NotifyStep == lastOp'.op = "Notify" /\ ~UNCHANGED <<_id, _notifications>>

\* a step of __Notify that constructs a notification at once
CreateStep ==
    /\ NotifyStep
    /\ lastOp'.arg = 0 \/ ~DictHas(_notifications, lastOp'.arg)

\* a step of __Notify with the replaces_id of a live notification
ReplaceLiveStep ==
    /\ NotifyStep
    /\ lastOp'.arg # 0
    /\ DictHas(_notifications, lastOp'.arg)

\* a step of __CloseNotification with the id of a live notification
CloseLiveStep ==
    /\ DaemonStep
    /\ lastOp'.op = "CloseNotification"
    /\ DictHas(_notifications, lastOp'.arg)

\* a step of __CloseNotification with an id that is not live
CloseMissStep ==
    /\ DaemonStep
    /\ lastOp'.op = "CloseNotification"
    /\ ~DictHas(_notifications, lastOp'.arg)

\* C1: a Notify with the replaces_id X of a live notification emits
\* NotificationClosed(X, reason) and then, when the call has completed, a new
\* notification is in the store under X; the close signal precedes "notified".
C1_ReplaceLiveCreates ==
    [][ReplaceLiveStep =>
          LET X == lastOp'.arg IN
          /\ PositionsAfter("NotificationClosed", X) # {}
          /\ DictHas(_notifications', X)
          /\ \E i \in PositionsAfter("NotificationClosed", X),
                j \in PositionsAfter("notified", X) : i < j]_vars

\* C2: a Notify with replaces_id = 0 returns the counter plus one, which becomes
\* the counter; no step lowers the counter; the file holds the counter, and a
\* restart restores it: the returned ids are strictly increasing.
C2_FreshIdsIncrease ==
    [][/\ (NotifyStep /\ lastOp'.arg = 0) =>
              (lastOp'.ret = _id + 1 /\ _id' = _id + 1)
       /\ _id' >= _id
       /\ cache_file'.id = _id'
       /\ (DaemonStep /\ lastOp'.op = "restart") => _id' = cache_file.id]_vars

\* C2 witness: a restart has restored a counter of 2 although no notification
\* is left in the history
C2_Witness ==
    /\ lastOp.op = "restart"
    /\ _id = 2
    /\ _notifications = <<>>

\* C3: the id a Notify with replaces_id = 0 returns is not the id of a
\* notification that is live at the time of the call.
C3_FreshIdNotLive ==
    [][(NotifyStep /\ lastOp'.arg = 0) =>
          ~DictHas(_notifications, lastOp'.ret)]_vars

\* C4: when a Notify has completed and max_popups_count is M > 0, popups holds
\* at most M entries.
C4_PopupsWithinMax ==
    [][(NotifyStep /\ max_popups_count' > 0) =>
          Len(_popups') <= max_popups_count']_vars

\* C5: while max_popups_count is 0 a Notify that creates a notification leaves
\* popups as it was (nothing evicted, nothing admitted) and adds the
\* notification to notifications and to the history file.
C5_ZeroMaxDisablesPopups ==
    [][(CreateStep /\ max_popups_count = 0) =>
          /\ Ids(_popups') = Ids(_popups)
          /\ DictHas(_notifications', lastOp'.ret)
          /\ cache_file'.notifications = JsonOf(_notifications')]_vars

\* C6: every popup is a notification of the store: its id is in the store and
\* the store holds the same object under that id.
C6_PopupsSubsetOfStore ==
    \A i \in 1..Len(_popups) :
        /\ DictHas(_notifications, _popups[i].id)
        /\ DictGet(_notifications, _popups[i].id) = _popups[i]

\* the popup admitted last: the youngest object
Newest(d) == CHOOSE n \in {d[i] : i \in 1..Len(d)} :
                 \A i \in 1..Len(d) : d[i].oid <= n.oid

\* the popup admitted first: the oldest object
Oldest(d) == CHOOSE n \in {d[i] : i \in 1..Len(d)} :
                 \A i \in 1..Len(d) : d[i].oid >= n.oid

\* the popups of before the step that are still popups after it: all but the
\* notification the step constructed
Remaining == LET new == DictGet(_notifications', lastOp'.ret)
             IN  SelectSeq(_popups', LAMBDA p : p.oid # new.oid)

\* C7: a notification created while the popup count is at or above
\* max_popups_count > 0 dismisses exactly one existing popup, the one admitted
\* last; all the other existing popups stay.
C7_EvictsNewest ==
    [][(CreateStep /\ max_popups_count > 0 /\ Len(_popups) >= max_popups_count) =>
          Strip(Remaining) =
              Strip(SelectSeq(_popups, LAMBDA p : p.oid # Newest(_popups).oid))]_vars

\* C8: popups is ordered from newest to oldest, and the popup dismissed to keep
\* popups within max_popups_count is the oldest one.
C8_EvictsOldest ==
    [][/\ \A i, j \in 1..Len(_popups') :
              i < j => _popups'[i].oid > _popups'[j].oid
       /\ (CreateStep /\ max_popups_count > 0 /\ Len(_popups) >= max_popups_count) =>
              Strip(Remaining) =
                  Strip(SelectSeq(_popups, LAMBDA p : p.oid # Oldest(_popups).oid))]_vars

\* C9: CloseNotification(id) on a live notification removes exactly that
\* notification from notifications, removes it from popups if it is there,
\* writes the history without it, and emits NotificationClosed(id, reason)
\* once; afterwards get_notification(id) finds nothing.
C9_CloseLive ==
    [][CloseLiveStep =>
          LET id == lastOp'.arg
              n  == DictGet(_notifications, id)
              shown == \E i \in 1..Len(_popups) : _popups[i] = n
          IN  /\ Strip(_notifications') = Strip(DictPop(_notifications, id))
              /\ Len(_notifications') = Len(_notifications) - 1
              /\ Strip(_popups') =
                     IF shown THEN Strip(DictPop(_popups, id)) ELSE Strip(_popups)
              /\ cache_file' = [id |-> _id, notifications |-> JsonOf(_notifications')]
              /\ Cardinality(PositionsAfter("NotificationClosed", id)) = 1
              /\ events'[Min(PositionsAfter("NotificationClosed", id))][3] = ClosedReason
              /\ ~get_notification_has(State', id)
              /\ _id' = _id]_vars

\* C9 witness: a shown popup has been closed and another notification is left
C9_Witness ==
    /\ lastOp.op = "CloseNotification"
    /\ Positions("NotificationClosed", lastOp.arg) # {}
    /\ Positions("notify::popups", lastOp.arg) # {}
    /\ Len(_notifications) >= 1
    /\ ~DictHas(_notifications, lastOp.arg)

\* C10: CloseNotification(id) for an id that is not live emits nothing, writes
\* nothing and leaves notifications, popups, the counter and the history file
\* as they were.
C10_CloseMiss ==
    [][CloseMissStep =>
          /\ events' = <<>>
          /\ UNCHANGED <<_id, _notifications, _popups, cache_file>>]_vars

\* C10 witness: a CloseNotification of an id the counter has issued has missed
\* while other notifications and popups are there
C10_Witness ==
    /\ lastOp.op = "CloseNotification"
    /\ events = <<>>
    /\ lastOp.arg <= _id
    /\ Len(_notifications) >= 1
    /\ Len(_popups) >= 1

\* the ids a notification can have: the ones clients name, the ones issued
AllIds == ClientIds \cup (1..MaxId)

\* the notification that was in the store under id is not in it after the step:
\* the id is gone, or the step has constructed a notification and put it
\* under the id
LeavesStore(id) ==
    /\ DictHas(_notifications, id)
    /\ \/ ~DictHas(_notifications', id)
       \/ PositionsAfter("notified", id) # {}

\* C11: every notification that leaves the store of a running daemon does so
\* with exactly one NotificationClosed carrying its id, and no
\* NotificationClosed is emitted for an id that was not live; within one close
\* the popup removal comes before the history write and the write before the
\* signal.
C11_LeavesWithOneSignal ==
    [][(DaemonStep /\ lastOp'.op # "restart") =>
          \A id \in AllIds :
              /\ Cardinality(PositionsAfter("NotificationClosed", id)) =
                     IF LeavesStore(id) THEN 1 ELSE 0
              /\ \A k \in PositionsAfter("NotificationClosed", id) :
                     \E w \in 1..(k - 1) :
                         /\ events'[w][1] = "write"
                         /\ \A p \in PositionsAfter("notify::popups", id) :
                                p < k => p < w]_vars

\* the history file does not parse or does not validate
InvalidFile(file) ==
    \/ ~parses(file)
    \/ /\ parses(file)
       /\ \E i \in 1..Len(log_file_get(file, "notifications", <<>>)) :
              ~ValidRecord(log_file_get(file, "notifications", <<>>)[i])

\* a start of the daemon
StartStep == lastOp'.op = "restart" /\ lastOp' # lastOp

\* C13: a start on a history file that does not parse or validate, a valid
\* record followed by an invalid one included, leaves the store empty and the
\* counter 0 (no partial recovery) and rewrites the file to the empty skeleton.
C13_InvalidFileLoadsEmpty ==
    [][(StartStep /\ InvalidFile(cache_file)) =>
          /\ _notifications' = <<>>
          /\ _popups' = <<>>
          /\ _id' = 0
          /\ cache_file' = EmptyCacheFile]_vars

\* a running daemon is stopped and a new daemon loads the history file
RestartStep == DaemonStep /\ lastOp'.op = "restart" /\ lastOp.op # "stopped"

\* a notification as a restart reconstructs it: popup reset to false
Reloaded(d) == [i \in 1..Len(d) |-> [Content(d[i]) EXCEPT !.popup = FALSE]]

\* C12: when a running daemon is stopped between two operations and a new
\* daemon loads the history file, the new store holds the same notifications
\* (ids and content) with popup false, popups is empty, and the counter is the
\* one of before the stop, so the next fresh Notify returns that counter plus 1.
C12_RestartRoundTrip ==
    [][RestartStep =>
          /\ Strip(_notifications') = Reloaded(_notifications)
          /\ _popups' = <<>>
          /\ _id' = _id
          /\ NotifyReturn(State', 0) = _id + 1]_vars

\* the records of the history file, as a start reads them
FileRecords == log_file_get(cache_file, "notifications", <<>>)

\* C14: once the daemon runs, between two operations the history file reflects
\* the memory: the ids of its records are the ids of the store and its counter
\* is the counter of the daemon.
C14_FileReflectsMemory ==
    lastOp.op # "stopped" =>
        /\ parses(cache_file)
        /\ {FileRecords[i].id : i \in 1..Len(FileRecords)} =
               {_notifications[i].id : i \in 1..Len(_notifications)}
        /\ log_file_get(cache_file, "id", 0) = _id

\* the notification a creating Notify has put into the store
Created == DictGet(_notifications', lastOp'.ret)

IsPopup(d, n) == \E i \in 1..Len(d) : d[i] = n

\* C15: the popup flag of a created notification is the negation of dnd at
\* the time it is created, by a Notify or by close() on a kept object that a
\* Notify has replaced. With dnd false a fresh Notify on an empty daemon
\* returns 1, and a notification created while popups is below a positive
\* maximum is in notifications and in popups and new_popup is emitted; with dnd
\* true it is in notifications only and no new_popup is emitted. Nothing but
\* popups is ever in popups, and a change of dnd by the setter changes no flag
\* and no membership.
C15_PopupIsNotDnd ==
    [][/\ CreateStep =>
              /\ Created.popup = ~dnd
              /\ DictHas(_notifications', lastOp'.ret)
              /\ (~dnd /\ max_popups_count > 0 /\ Len(_popups) < max_popups_count) =>
                     /\ IsPopup(_popups', Created)
                     /\ PositionsAfter("new_popup", lastOp'.ret) # {}
              /\ (~dnd /\ _notifications = <<>> /\ _id = 0 /\ lastOp'.arg = 0) =>
                     lastOp'.ret = 1
              /\ dnd =>
                     /\ ~IsPopup(_popups', Created)
                     /\ PositionsAfter("new_popup", lastOp'.ret) = {}
       /\ (lastOp'.op \in {"Notify", "close"} /\ DaemonStep) =>
              \A id \in AllIds :
                  PositionsAfter("notified", id) # {} =>
                      /\ DictHas(_notifications', id)
                      /\ DictGet(_notifications', id).popup = ~dnd
       /\ \A i \in 1..Len(_popups') : _popups'[i].popup
       /\ (~UNCHANGED <<_notifications, _popups>>
              /\ ~(lastOp'.op = "restart" /\ DaemonStep)) => dnd' = dnd]_vars

\* C15 witness: with dnd on, a notification has been created that is no popup
\* while an earlier notification is one
C15_Witness ==
    /\ lastOp.op = "Notify"
    /\ dnd
    /\ DictHas(_notifications, lastOp.ret)
    /\ ~DictGet(_notifications, lastOp.ret).popup
    /\ Positions("new_popup", lastOp.ret) = {}
    /\ Len(_popups) >= 1
    /\ Len(_notifications) >= 2

\* a step of notification.dismiss()
DismissStep == DaemonStep /\ lastOp'.op = "dismiss"

\* the notification the step has dismissed is an entry of popups; a kept
\* object (ret = 0) is none
DismissedIsPopup ==
    /\ lastOp'.ret # 0
    /\ \E i \in 1..Len(_popups) :
           _popups[i].id = lastOp'.arg /\ _popups[i].oid = lastOp'.ret

\* C16: dismissing a popup (by the user, by its timeout, by eviction) removes
\* it from popups only: it stays in notifications, no NotificationClosed is
\* emitted, the counter, the file and the rest are as they were; dismissing a
\* notification that is not in popups changes nothing.
C16_DismissOnlyHidesPopup ==
    [][/\ DismissStep =>
              /\ Strip(_popups') =
                     IF DismissedIsPopup
                     THEN Strip(DictPop(_popups, lastOp'.arg))
                     ELSE Strip(_popups)
              /\ Strip(_notifications') = Strip(_notifications)
              /\ \A id \in AllIds : PositionsAfter("NotificationClosed", id) = {}
              /\ UNCHANGED <<_id, cache_file>>
       /\ CreateStep =>
              /\ \A id \in AllIds : PositionsAfter("NotificationClosed", id) = {}
              /\ \A i \in 1..Len(_notifications) :
                     DictHas(_notifications', _notifications[i].id)]_vars

\* a call of the options service
CallStep(name) == optionsOp'.op = name /\ ~UNCHANGED optvars

\* C17: create_option on a name that does not exist registers the option with
\* the default; on a name that exists it changes nothing when exists_ok is
\* true, and raises OptionExistsError, changing nothing, when it is false.
C17_CreateOption ==
    [][CallStep("create_option") =>
          LET name == optionsOp'.name
              default == optionsOp'.value
          IN  IF name \notin DOMAIN __data
              THEN /\ optionsOp'.raised = ""
                   /\ __data' = (name :> Option(name, default)) @@ __data
                   /\ get_option(OptionsState', name).raised = ""
                   /\ get_option(OptionsState', name).ret = default
              ELSE /\ optionsOp'.raised =
                          IF optionsOp'.exists_ok THEN "" ELSE "OptionExistsError"
                   /\ UNCHANGED <<__data, options_file>>]_vars

\* C17 witness: create_option with exists_ok true has left an option that
\* holds another value than the default as it was
C17_Witness ==
    /\ optionsOp.op = "create_option"
    /\ optionsOp.exists_ok
    /\ optionsOp.raised = ""
    /\ __data[optionsOp.name].value # optionsOp.value

\* C18: get_option and set_option on a name that was never created raise
\* OptionNotFoundError and change neither the memory nor the file; get_option
\* changes nothing at all; after set_option on an option get_option returns
\* the value set.
C18_GetSetOption ==
    [][/\ CallStep("get_option") =>
              LET name == optionsOp'.name
              IN  /\ UNCHANGED <<__data, options_file>>
                  /\ IF name \in DOMAIN __data
                     THEN optionsOp'.raised = "" /\ optionsOp'.ret = __data[name].value
                     ELSE optionsOp'.raised = "OptionNotFoundError"
       /\ CallStep("set_option") =>
              LET name == optionsOp'.name
              IN  IF name \in DOMAIN __data
                  THEN /\ optionsOp'.raised = ""
                       /\ get_option(OptionsState', name).raised = ""
                       /\ get_option(OptionsState', name).ret = optionsOp'.value
                       /\ \A other \in DOMAIN __data \ {name} :
                              __data'[other] = __data[other]
                  ELSE /\ optionsOp'.raised = "OptionNotFoundError"
                       /\ UNCHANGED <<__data, options_file>>]_vars

\* C18 witness: set_option on a name that was never created has raised while
\* another option is there
C18_Witness ==
    /\ optionsOp.op = "set_option"
    /\ optionsOp.raised = "OptionNotFoundError"
    /\ optionsOp.name \notin DOMAIN __data
    /\ __data # <<>>
    /\ options_file # <<>>

\* C19: remove_option on an option removes it: get_option then raises
\* OptionNotFoundError and create_option with exists_ok false succeeds;
\* remove_option on a name that does not exist raises OptionNotFoundError and
\* changes nothing.
C19_RemoveOption ==
    [][CallStep("remove_option") =>
          LET name == optionsOp'.name
          IN  IF name \in DOMAIN __data
              THEN /\ optionsOp'.raised = ""
                   /\ name \notin DOMAIN __data'
                   /\ get_option(OptionsState', name).raised = "OptionNotFoundError"
                   /\ \A v \in OptionValues :
                          create_option(OptionsState', name, v, FALSE).raised = ""
              ELSE /\ optionsOp'.raised = "OptionNotFoundError"
                   /\ UNCHANGED <<__data, options_file>>]_vars

\* C20: a Notify with a replaces_id X # 0 that is not live creates a
\* notification under X in the same call and returns X; the counter is not
\* advanced and no NotificationClosed is emitted.
C20_ReplaceAbsentCreates ==
    [][(CreateStep /\ lastOp'.arg # 0) =>
          LET X == lastOp'.arg IN
          /\ lastOp'.ret = X
          /\ DictHas(_notifications', X)
          /\ Ids(_notifications') = Append(Ids(_notifications), X)
          /\ PositionsAfter("notified", X) # {}
          /\ _id' = _id
          /\ cache_file' = [id |-> _id, notifications |-> JsonOf(_notifications')]
          /\ \A id \in AllIds : PositionsAfter("NotificationClosed", id) = {}]_vars

\* C20 witness: a Notify with replaces_id 3 has created notification 3 next
\* to another notification while the counter is 1
C20_Witness ==
    /\ lastOp.op = "Notify"
    /\ lastOp.arg = 3
    /\ lastOp.ret = 3
    /\ _id = 1
    /\ DictHas(_notifications, 3)
    /\ Len(_notifications) >= 2
    /\ Positions("notified", 3) # {}

\* the NotificationClosed signals of the last operation
ClosedSignals == {i \in 1..Len(events) : events[i][1] = "NotificationClosed"}

\* C21: every NotificationClosed signal carries the same reason code, whatever
\* has closed the notification: CloseNotification, clear_all, the close of the
\* old notification of a replace; each of them goes through close() of the
\* notification itself.
C21_OneReasonCode ==
    \A i \in ClosedSignals : events[i][3] = ClosedReason

\* C21 witness: clear_all has closed a popup and a notification that is no
\* popup, with two signals
C21_Witness ==
    /\ lastOp.op = "clear_all"
    /\ Cardinality(ClosedSignals) >= 2
    /\ Positions("notify::popups", events[Min(ClosedSignals)][2]) # {}
    /\ \E i \in ClosedSignals : Positions("notify::popups", events[i][2]) = {}

\* C22: a popup is evicted only to make room for a popup that is admitted: a
\* Notify that creates a notification while dnd is on leaves popups as it was,
\* also when the popup count is at or above max_popups_count.
C22_NoEvictionUnderDnd ==
    [][(CreateStep /\ dnd) => Strip(_popups') = Strip(_popups)]_vars

\* the name-to-value mapping of the options in memory
OptionValuesOf(data) == [name \in DOMAIN data |-> data[name].value]

\* the name-to-value mapping a reader of the options file gets
OptionValuesIn(file) == [name \in DOMAIN file |-> json_load(file[name])]

\* the options file holds exactly the name-to-value mapping of the memory, so
\* that an options service that loads the file gives, for every name, what
\* get_option gives now: the same value, or OptionNotFoundError
FileIsMemory ==
    /\ OptionValuesIn(options_file) = OptionValuesOf(__data)
    /\ \A name \in OptionNames :
           LET now   == get_option(OptionsState, name)
               again == get_option(options_init_service(options_file, FALSE), name)
           IN  again.raised = now.raised /\ again.ret = now.ret

\* C23: after every create_option that has registered an option, every
\* successful set_option and every remove_option of an existing option the
\* options file holds exactly the name-to-value mapping of the memory, so that
\* a restarted options service that loads the file returns the same value from
\* get_option for every option.
C23_OptionsFileIsMemory ==
    [][(\/ /\ CallStep("create_option")
           /\ optionsOp'.raised = ""
           /\ ~data_has(OptionsState, optionsOp'.name)
        \/ /\ CallStep("set_option")
           /\ optionsOp'.raised = ""
        \/ /\ CallStep("remove_option")
           /\ data_has(OptionsState, optionsOp'.name))
          => FileIsMemory']_vars

\* recording_started and recording_stopped alternate, recording_started first
Alternate(signals) ==
    \A i \in 1..Len(signals) :
        signals[i] = IF i % 2 = 1 THEN "recording_started" ELSE "recording_stopped"

\* C24: in the recorder, after any sequence of start_recording (its stream
\* callback firing with or without a bus), pause_recording,
\* continue_recording, stop_recording and end-of-stream or error messages:
\* is_paused is true only while active is true; pause_recording and
\* continue_recording change the state only when a recording is active; the
\* recording_started and recording_stopped signals alternate, starting with
\* recording_started.
C24_RecorderInvariants ==
    [][/\ _is_paused' => _active'
       /\ (recorderOp' \in {"pause_recording", "continue_recording"} /\ ~_active) =>
              UNCHANGED <<_active, _is_paused, __pipeline, emitted>>
       /\ Alternate(emitted')]_vars

====
